---- MODULE Spec2Model ----
(***************************************************************************)
(* Model of Investimento.py: the batch loop of main() over the selected   *)
(* tickers, and the analytics it calls (calcular_metricas,                *)
(* analisar_tendencia, calcular_projecao_crescimento).                    *)
(*                                                                         *)
(* Numbers.  A float is modelled as an extended rational [n, d]:          *)
(*   d > 0   the finite value n/d, in lowest terms;                        *)
(*   d = 0   n = 0 is NaN, n = 1 is +inf, n = -1 is -inf.                  *)
(* Arithmetic on finite values is exact; NaN and the infinities follow    *)
(* IEEE 754 (NaN propagates, every ordered comparison with NaN is false,  *)
(* x/0 is an infinity or NaN).  The square root, the one irrational       *)
(* operation of the program, is rounded down to a multiple of 1/Scale.    *)
(* Rounding of the other float operations and the sign of zero are not    *)
(* modelled.                                                              *)
(***************************************************************************)
EXTENDS Integers, Sequences, FiniteSets, TLC

\* ---------------------------------------------------------------- bounds
MaxTickers == 2      \* most symbols selected in one run
MaxPrice   == 3      \* prices are drawn from {-1} \cup 1..MaxPrice
Extra      == 4      \* the longest series has W200 + Extra observations
Scale      == 100    \* resolution of the square root: 1/Scale

\* ------------------------------------------------------ program constants
W50   == 50          \* rolling(window=50)
W200  == 200         \* rolling(window=200)
W30   == 30          \* rolling(window=30)
Ano   == 252         \* np.sqrt(252)
Pos   == 5           \* iloc[-5]
Passo == 5           \* the divisor 5 of the momentum
Cem   == 100         \* * 100, percent

\* ------------------------------------------------------------ arithmetic
Abs(x) == IF x < 0 THEN -x ELSE x
Sgn(x) == IF x < 0 THEN -1 ELSE IF x > 0 THEN 1 ELSE 0

RECURSIVE GCD(_, _)
GCD(a, b) == IF b = 0 THEN a ELSE GCD(b, a % b)

Rat(n, d) ==
  IF d = 0 THEN [n |-> Sgn(n), d |-> 0]
  ELSE LET g == GCD(Abs(n), Abs(d))
           s == Sgn(d)
       IN  [n |-> (s * n) \div g, d |-> (s * d) \div g]

Num(k)      == [n |-> k, d |-> 1]
NaN         == [n |-> 0, d |-> 0]
IsNaN(x)    == x.d = 0 /\ x.n = 0
IsFinite(x) == x.d # 0

Add(a, b) ==
  IF IsNaN(a) \/ IsNaN(b) THEN NaN
  ELSE IF a.d = 0 /\ b.d = 0 THEN (IF a.n = b.n THEN a ELSE NaN)
  ELSE IF a.d = 1 /\ b.d = 1 THEN [n |-> a.n + b.n, d |-> 1]
  ELSE Rat(a.n * b.d + b.n * a.d, a.d * b.d)
Neg(a)    == [n |-> -a.n, d |-> a.d]
Sub(a, b) == Add(a, Neg(b))
Mul(a, b) ==
  IF a.d = 1 /\ b.d = 1 THEN [n |-> a.n * b.n, d |-> 1]
  ELSE Rat(a.n * b.n, a.d * b.d)
Div(a, b) == Mul(a, Rat(b.d, b.n))

\* a < b and a > b as the floats compare: false when either side is NaN
Lt(a, b) ==
  /\ ~IsNaN(a) /\ ~IsNaN(b)
  /\ IF a.d = 0 /\ b.d = 0 THEN a.n < b.n ELSE a.n * b.d < b.n * a.d
Gt(a, b) == Lt(b, a)
Ge(a, b) == ~IsNaN(a) /\ ~IsNaN(b) /\ ~Lt(a, b)

\* largest k with k * k <= m, for m >= 0
RECURSIVE ISqrtIn(_, _, _)
ISqrtIn(m, lo, hi) ==
  IF lo >= hi THEN lo
  ELSE LET mid == (lo + hi + 1) \div 2
       IN  IF mid * mid <= m THEN ISqrtIn(m, mid, hi) ELSE ISqrtIn(m, lo, mid - 1)
ISqrt(m) == ISqrtIn(m, 0, IF m < 46340 THEN m ELSE 46340)

\* np.sqrt: NaN for NaN and for negative values, rounded down to 1/Scale
Sqrt(x) ==
  IF IsNaN(x) \/ x.n < 0 THEN NaN
  ELSE IF x.d = 0 THEN x
  ELSE Rat(ISqrt((x.n * Scale * Scale) \div x.d), Scale)

\* --------------------------------------------------------------- pandas
\* A DataFrame is a function from column names to columns; a column is a
\* sequence of floats, one per date.  DataFrame.empty: no column or no row.
FrameVazio  == [c \in {} |-> <<>>]
Linhas(df)  == IF DOMAIN df = {} THEN 0 ELSE Len(df[CHOOSE c \in DOMAIN df : TRUE])
Empty(df)   == DOMAIN df = {} \/ Linhas(df) = 0

\* Series.iloc[k] for k < 0: the k-th value from the end; IndexError when
\* the series is shorter than -k
IlocOk(s, k) == Len(s) + k + 1 >= 1
Iloc(s, k)   == s[Len(s) + k + 1]

\* Series.pct_change(): s[t] / s[t-1] - 1, NaN at the first date
PctChange(s) ==
  [t \in 1..Len(s) |-> IF t = 1 THEN NaN ELSE Sub(Div(s[t], s[t - 1]), Num(1))]

\* a value that is not finite is left out of a rolling window
Conta(x) == IsFinite(x)

\* the running sums acc + s[lo], acc + s[lo] + s[lo+1], ... at lo..hi, of
\* the values that count (the sum stays as it is where a value does not)
RECURSIVE RunSum(_, _, _, _)
RunSum(s, lo, hi, acc) ==
  IF lo > hi THEN <<>>
  ELSE IF lo = hi THEN <<IF Conta(s[lo]) THEN Add(acc, s[lo]) ELSE acc>>
  ELSE LET mid  == (lo + hi) \div 2
           left == RunSum(s, lo, mid, acc)
       IN  left \o RunSum(s, mid + 1, hi, left[Len(left)])

\* the running number of values that count
RECURSIVE RunCount(_, _, _, _)
RunCount(s, lo, hi, acc) ==
  IF lo > hi THEN <<>>
  ELSE IF lo = hi THEN <<IF Conta(s[lo]) THEN acc + 1 ELSE acc>>
  ELSE LET mid  == (lo + hi) \div 2
           left == RunCount(s, lo, mid, acc)
       IN  left \o RunCount(s, mid + 1, hi, left[Len(left)])

\* the running products of the values that are not NaN
RECURSIVE RunProd(_, _, _, _)
RunProd(s, lo, hi, acc) ==
  IF lo > hi THEN <<>>
  ELSE IF lo = hi THEN <<IF IsNaN(s[lo]) THEN acc ELSE Mul(acc, s[lo])>>
  ELSE LET mid  == (lo + hi) \div 2
           left == RunProd(s, lo, mid, acc)
       IN  left \o RunProd(s, mid + 1, hi, left[Len(left)])

Square(s) == [t \in 1..Len(s) |-> Mul(s[t], s[t])]

\* a cumprod that does not skip NaN (skipna=False): NaN from the first NaN on
CumprodSemSkip(s) ==
  [t \in 1..Len(s) |-> IF \E u \in 1..t : IsNaN(s[u]) THEN NaN
                       ELSE RunProd(s, 1, t, Num(1))[t]]

\* Series.cumprod() (skipna=True): the running product of the values that
\* are not NaN; the result is NaN where the value is NaN
Cumprod(s) ==
  LET prod == RunProd(s, 1, Len(s), Num(1))
  IN  [t \in 1..Len(s) |-> IF IsNaN(s[t]) THEN NaN ELSE prod[t]]

\* a window that averages whatever it holds (min_periods=1)
MinPeriodsUm(w) == 1

\* how many observations a window of w needs (min_periods defaults to window)
MinPeriods(w) == w

\* a running total restricted to the window of w that ends at t: what was
\* added up to t less what had been added up to t - w
JanelaCount(run, t, w) == IF t > w THEN run[t] - run[t - w] ELSE run[t]
JanelaSum(run, t, w)   == IF t > w THEN Sub(run[t], run[t - w]) ELSE run[t]

\* Series.rolling(window=w).mean(): the mean of the values of the window
\* that count, NaN when fewer than min_periods of them do
RollMean(s, w) ==
  LET cnt == RunCount(s, 1, Len(s), 0)
      sum == RunSum(s, 1, Len(s), Num(0))
  IN  [t \in 1..Len(s) |->
         LET nobs == JanelaCount(cnt, t, w)
         IN  IF nobs >= MinPeriods(w)
             THEN Div(JanelaSum(sum, t, w), Num(nobs))
             ELSE NaN]

\* Series.rolling(window=w).std(): the sample standard deviation (ddof=1)
\* of the values of the window that count, from their count, sum and sum of
\* squares; a variance that comes out negative is taken as 0
RollStd(s, w) ==
  LET cnt == RunCount(s, 1, Len(s), 0)
      sum == RunSum(s, 1, Len(s), Num(0))
      sq  == RunSum(Square(s), 1, Len(s), Num(0))
  IN  [t \in 1..Len(s) |->
         LET nobs == JanelaCount(cnt, t, w)
             soma == JanelaSum(sum, t, w)
             quad == JanelaSum(sq, t, w)
             var  == Div(Sub(quad, Div(Mul(soma, soma), Num(nobs))), Num(nobs - 1))
         IN  IF nobs >= MinPeriods(w) /\ nobs > 1
             THEN Sqrt(IF Lt(var, Num(0)) THEN Num(0) ELSE var)
             ELSE NaN]

Times(s, x) == [t \in 1..Len(s) |-> Mul(s[t], x)]
OnePlus(s)  == [t \in 1..Len(s) |-> Add(Num(1), s[t])]
MinusOne(s) == [t \in 1..Len(s) |-> Sub(s[t], Num(1))]

\* ------------------------------------------------------------ analytics
\* calcular_metricas(df): the five assignments df[...] = ..., in order;
\* the value is the frame the function returns, which is the frame it was
\* given with the five columns set
calcular_metricas(df) ==
  LET d1 == ("Retorno_Diario" :> PctChange(df["Adj Close"])) @@ df
      d2 == ("Retorno_Acumulado" :> MinusOne(Cumprod(OnePlus(d1["Retorno_Diario"])))) @@ d1
      d3 == ("Media_Movel_50" :> RollMean(d2["Adj Close"], W50)) @@ d2
      d4 == ("Media_Movel_200" :> RollMean(d3["Adj Close"], W200)) @@ d3
      d5 == ("Volatilidade" :> Times(RollStd(d4["Retorno_Diario"], W30), Sqrt(Num(Ano)))) @@ d4
  IN  d5

\* a comparison that takes the tie for growth (>= for >)
analisar_tendencia_empate(df) ==
  LET m50  == Iloc(df["Media_Movel_50"], -1)
      m200 == Iloc(df["Media_Movel_200"], -1)
  IN  IF Ge(m50, m200)
      THEN [tendencia |-> "Crescimento", seta |-> "cima",
            percentual |-> Mul(Sub(Div(m50, m200), Num(1)), Num(Cem))]
      ELSE [tendencia |-> "Queda", seta |-> "baixo",
            percentual |-> Mul(Sub(Num(1), Div(m50, m200)), Num(Cem))]

\* analisar_tendencia(df): the tuple it returns
analisar_tendencia(df) ==
  LET m50  == Iloc(df["Media_Movel_50"], -1)
      m200 == Iloc(df["Media_Movel_200"], -1)
  IN  IF Gt(m50, m200)
      THEN [tendencia |-> "Crescimento", seta |-> "cima",
            percentual |-> Mul(Sub(Div(m50, m200), Num(1)), Num(Cem))]
      ELSE [tendencia |-> "Queda", seta |-> "baixo",
            percentual |-> Mul(Sub(Num(1), Div(m50, m200)), Num(Cem))]

\* calcular_projecao_crescimento(df) raises IndexError at iloc[-5] when the
\* frame has fewer than 5 rows
ProjecaoIndexError(df) == ~IlocOk(df["Media_Movel_50"], -Pos)

Momento(df) ==
  Div(Sub(Iloc(df["Media_Movel_50"], -1), Iloc(df["Media_Movel_50"], -Pos)), Num(Passo))

\* the projection without its floor
ClampAusente(x) == x

\* if crescimento_projetado < 0: crescimento_projetado = 0
Clamp(x) == IF Lt(x, Num(0)) THEN Num(0) ELSE x

calcular_projecao_crescimento(df) ==
  LET crescimento_projetado ==
        Mul(Momento(df), Sub(Num(1), Iloc(df["Volatilidade"], -1)))
  IN  Mul(Clamp(crescimento_projetado), Num(Cem))

\* ----------------------------------------------------------------- state
VARIABLES
  tickers_acoes,          \* main: the selected symbols, in order
  heap,                   \* the DataFrame objects: object id -> frame
  dados_yahoo,            \* the dict pegar_dados_yahoo returns: symbol -> id
  baixados,               \* pegar_dados_yahoo: symbols already tried
  i,                      \* main: position of the for loop in tickers_acoes
  df,                     \* main: the object the local df refers to (0: a
                          \* fresh empty pd.DataFrame())
  entrada,                \* the object given to the last calcular_metricas
  trend,                  \* recomendar: what analisar_tendencia returned
  momento_crescimento,    \* the projection's local of that name
  crescimento_projetado,  \* recomendar: what the projection returned
  tela,                   \* what was written to the page, in order
  pc                      \* where the script is

vars == <<tickers_acoes, heap, dados_yahoo, baixados, i, df, entrada, trend,
          momento_crescimento, crescimento_projetado, tela, pc>>

tickers_lista ==
  <<"SANB11", "PETR4", "IFCM3", "OSXB3", "MGHT11", "BRKM6", "SNSY5", "NIO", "SQ",
    "PLTR", "DKNG", "ROKU", "AAPL", "MSFT", "AMZN", "GOOGL", "TSLA", "NVDA", "JNJ">>

\* ---------------------------------------------------------------- inputs
Precos == {-1} \cup (1..MaxPrice)

\* n observations: p1 up to the last k dates, p2 on the last k
Serie(n, p1, p2, k) == [t \in 1..n |-> Num(IF t <= n - k THEN p1 ELSE p2)]

Tamanhos == {Pos - 2, Pos, 2 * Pos, W50 - 1, W50, W50 + Pos - 2, W50 + Pos - 1,
             W50 + Pos, W200 - 1, W200, W200 + Extra}
Quebras  == {Pos - 2, W30 + Pos}

SeriesLongas == {Serie(n, p1, p2, k) : n \in Tamanhos, p1 \in Precos, p2 \in Precos,
                                       k \in Quebras}
SeriesCurtas == {Serie(n, 1, 1, 0) : n \in {Pos - 2, 2 * Pos}}

\* what yf.download can answer: an exception, a table with no row, or a
\* table of prices.  One symbol alone gets any series of the family; with
\* several symbols in the run the series are the short ones.
Respostas(n) ==
  {[tipo |-> "erro", precos |-> <<>>], [tipo |-> "tabela", precos |-> <<>>]}
  \cup {[tipo |-> "tabela", precos |-> s] :
          s \in IF n <= 1 THEN SeriesLongas ELSE SeriesCurtas}

Msg(t, tipo, texto, valor) == [ticker |-> t, tipo |-> tipo, texto |-> texto, valor |-> valor]

Nulo == [tendencia |-> "", seta |-> "", percentual |-> NaN]

\* the frame a reference denotes
Frame(ref) == IF ref = 0 THEN FrameVazio ELSE heap[ref]

\* --------------------------------------------------------------- actions
\* main up to the press of "Analisar": the first symbols of tickers_lista
\* are selected and the field for another symbol is left empty
Init ==
  /\ tickers_acoes \in {SubSeq(tickers_lista, 1, n) : n \in 0..MaxTickers}
  /\ heap = <<>>
  /\ dados_yahoo = [s \in {} |-> 0]
  /\ baixados = 0
  /\ i = 1
  /\ df = 0
  /\ entrada = 0
  /\ trend = Nulo
  /\ momento_crescimento = NaN
  /\ crescimento_projetado = NaN
  /\ tela = <<>>
  /\ pc = "baixar"

\* pegar_dados_yahoo, one symbol: the download answers with a table, which
\* is stored under the symbol (with a warning when it has no row) ...
Baixar ==
  /\ pc = "baixar" /\ baixados < Len(tickers_acoes)
  /\ \E r \in Respostas(Len(tickers_acoes)) :
       LET t == tickers_acoes[baixados + 1] IN
       /\ r.tipo = "tabela"
       /\ heap' = Append(heap, "Adj Close" :> r.precos)
       /\ dados_yahoo' = (t :> Len(heap) + 1) @@ dados_yahoo
       /\ tela' = IF r.precos = <<>>
                  THEN Append(tela, Msg(t, "warning_download", "", NaN))
                  ELSE tela
  /\ baixados' = baixados + 1
  /\ UNCHANGED <<tickers_acoes, i, df, entrada, trend, momento_crescimento, crescimento_projetado, pc>>

\* ... or raises, and the except branch reports it; the symbol gets no key
BaixarErro ==
  /\ pc = "baixar" /\ baixados < Len(tickers_acoes)
  /\ \E r \in Respostas(Len(tickers_acoes)) :
       /\ r.tipo = "erro"
       /\ tela' = Append(tela, Msg(tickers_acoes[baixados + 1], "error_download", "", NaN))
  /\ baixados' = baixados + 1
  /\ UNCHANGED <<tickers_acoes, heap, dados_yahoo, i, df, entrada, trend,
                 momento_crescimento, crescimento_projetado, pc>>

\* return dados
Retornar ==
  /\ pc = "baixar" /\ baixados = Len(tickers_acoes)
  /\ pc' = "loop"
  /\ UNCHANGED <<tickers_acoes, heap, dados_yahoo, baixados, i, df, entrada, trend,
                 momento_crescimento, crescimento_projetado, tela>>

\* df = dados_yahoo.get(ticker, pd.DataFrame())
Get(t) == IF t \in DOMAIN dados_yahoo THEN dados_yahoo[t] ELSE 0

\* for ticker in tickers_acoes: ... if df.empty: st.warning(...); continue
SemDados ==
  /\ pc = "loop" /\ i <= Len(tickers_acoes)
  /\ LET t == tickers_acoes[i] IN
       /\ Empty(Frame(Get(t)))
       /\ df' = Get(t)
       /\ tela' = Append(tela, Msg(t, "sem_dados", "", NaN))
  /\ i' = i + 1
  /\ UNCHANGED <<tickers_acoes, heap, dados_yahoo, baixados, entrada, trend,
                 momento_crescimento, crescimento_projetado, pc>>

\* df = calcular_metricas(df): the function assigns the columns on the
\* object it is given and returns that object
Metricas ==
  /\ pc = "loop" /\ i <= Len(tickers_acoes)
  /\ LET t == tickers_acoes[i] IN
       /\ ~Empty(Frame(Get(t)))
       /\ heap' = [heap EXCEPT ![Get(t)] = calcular_metricas(@)]
       /\ entrada' = Get(t)
       /\ df' = Get(t)
  /\ pc' = "graficos"
  /\ UNCHANGED <<tickers_acoes, dados_yahoo, baixados, i, trend,
                 momento_crescimento, crescimento_projetado, tela>>

\* exibir_graficos(ticker, df)
Graficos ==
  /\ pc = "graficos"
  /\ tela' = Append(tela, Msg(tickers_acoes[i], "graficos", "", NaN))
  /\ pc' = "recomendar"
  /\ UNCHANGED <<tickers_acoes, heap, dados_yahoo, baixados, i, df, entrada, trend,
                 momento_crescimento, crescimento_projetado>>

\* recomendar_compra_e_projecao, lines 103-112: the latest price, then the
\* trend and the recommendation
Recomendar ==
  /\ pc = "recomendar"
  /\ LET t == tickers_acoes[i]
         r == analisar_tendencia(Frame(df))
     IN  /\ trend' = r
         /\ tela' = tela \o <<Msg(t, "preco", "", Iloc(Frame(df)["Adj Close"], -1)),
                               Msg(t, IF r.tendencia = "Crescimento" THEN "success" ELSE "error",
                                   r.tendencia, r.percentual)>>
  /\ pc' = "projecao"
  /\ UNCHANGED <<tickers_acoes, heap, dados_yahoo, baixados, i, df, entrada,
                 momento_crescimento, crescimento_projetado>>

\* recomendar_compra_e_projecao, lines 115-116: the projection is computed
\* and written, and the loop goes on to the next symbol ...
Projecao ==
  /\ pc = "projecao"
  /\ ~ProjecaoIndexError(Frame(df))
  /\ momento_crescimento' = Momento(Frame(df))
  /\ crescimento_projetado' = calcular_projecao_crescimento(Frame(df))
  /\ tela' = Append(tela, Msg(tickers_acoes[i], "projecao", "",
                              calcular_projecao_crescimento(Frame(df))))
  /\ i' = i + 1
  /\ pc' = "loop"
  /\ UNCHANGED <<tickers_acoes, heap, dados_yahoo, baixados, df, entrada, trend>>

\* ... or iloc[-5] raises IndexError, which nothing catches: the script ends
ProjecaoFalha ==
  /\ pc = "projecao"
  /\ ProjecaoIndexError(Frame(df))
  /\ pc' = "falha"
  /\ UNCHANGED <<tickers_acoes, heap, dados_yahoo, baixados, i, df, entrada, trend,
                 momento_crescimento, crescimento_projetado, tela>>

\* the for loop is exhausted
Fim ==
  /\ pc = "loop" /\ i > Len(tickers_acoes)
  /\ pc' = "fim"
  /\ UNCHANGED <<tickers_acoes, heap, dados_yahoo, baixados, i, df, entrada, trend,
                 momento_crescimento, crescimento_projetado, tela>>

Next ==
  \/ Baixar \/ BaixarErro \/ Retornar
  \/ SemDados \/ Metricas \/ Graficos \/ Recomendar \/ Projecao \/ ProjecaoFalha
  \/ Fim

Spec == Init /\ [][Next]_vars

\* ---------------------------------------------------------------- claims
\* the script is right after calcular_metricas returned
AposMetricas == pc = "graficos"
\* the script is right after analisar_tendencia returned and was reported
AposTendencia == pc = "projecao"
\* the last thing written is a projection: the script is right after
\* calcular_projecao_crescimento returned, and df is the frame it was given
AposProjecao == tela # <<>> /\ tela[Len(tela)].tipo = "projecao"
Terminou == pc \in {"fim", "falha"}

Col(c)    == Frame(df)[c]
Ultimo(c) == Iloc(Col(c), -1)
N         == Linhas(Frame(df))

\* the structured outcomes the batch loop wrote for a symbol: a no-data
\* marker, or a report completed by its projection
Resultados(t) ==
  {m \in 1..Len(tela) : tela[m].ticker = t /\ tela[m].tipo \in {"sem_dados", "projecao"}}

\* C1: when the batch loop of main has stopped, every requested symbol has
\* exactly one structured outcome (a no-data marker or a report), and no
\* failure on one symbol has ended the loop before the symbols after it.
C1_CadaSimboloUmResultado ==
  Terminou =>
    /\ pc # "falha"
    /\ \A k \in 1..Len(tickers_acoes) : Cardinality(Resultados(tickers_acoes[k])) = 1

\* C2: whenever the 50-period or the 200-period average is undefined at the
\* latest date, analisar_tendencia reports neither Growth nor Decline.
C2_TendenciaIndeterminada ==
  (AposTendencia /\ (IsNaN(Ultimo("Media_Movel_50")) \/ IsNaN(Ultimo("Media_Movel_200"))))
    => trend.tendencia \notin {"Crescimento", "Queda"}

\* C3: whenever the 50-period average is defined at the latest date and 5
\* observations before it, the momentum calcular_projecao_crescimento
\* computes is (MA50[latest] - MA50[latest-5]) / 5.
C3_MomentoCincoAntes ==
  (AposProjecao /\ N >= 6 /\ ~IsNaN(Col("Media_Movel_50")[N - 5]) /\ ~IsNaN(Col("Media_Movel_50")[N]))
    => momento_crescimento
         = Div(Sub(Col("Media_Movel_50")[N], Col("Media_Movel_50")[N - 5]), Num(5))

\* one of the three inputs of the projection is undefined: the latest MA50,
\* the MA50 5 periods before it, or the latest volatility
EntradaIndefinida ==
  \/ N < 55
  \/ IsNaN(Col("Media_Movel_50")[N])
  \/ IsNaN(Col("Media_Movel_50")[N - 5])
  \/ IsNaN(Col("Volatilidade")[N])

\* C4: whenever one of its three inputs is undefined (every series shorter
\* than 55 observations included), calcular_projecao_crescimento ends
\* without an uncaught failure and without a numeric growth percentage.
C4_ProjecaoIndeterminada ==
  /\ pc = "falha" => ~EntradaIndefinida
  /\ (AposProjecao /\ EntradaIndefinida) => IsNaN(crescimento_projetado)

\* C5: for every finite momentum, the value calcular_projecao_crescimento
\* returns is >= 0 and is max(0, momentum * (1 - volatility)) * 100.
ThmC5_ProjecaoNaoNegativa ==
  (AposProjecao /\ IsFinite(momento_crescimento)) =>
    LET ajustado == Mul(momento_crescimento, Sub(Num(1), Ultimo("Volatilidade")))
    IN  /\ Ge(crescimento_projetado, Num(0))
        /\ crescimento_projetado
             = Mul(IF Gt(ajustado, Num(0)) THEN ajustado ELSE Num(0), Num(100))

\* a positive momentum under a volatility above 1: the factor (1 - vol) is
\* negative and the clamp has made the projection 0
WitC5_ClampComVolatilidadeAlta ==
  /\ AposProjecao
  /\ Gt(momento_crescimento, Num(0))
  /\ Gt(Ultimo("Volatilidade"), Num(1))
  /\ crescimento_projetado = Num(0)

\* C6: with both latest averages defined and MA200 > 0, the trend is Growth
\* with magnitude (MA50/MA200 - 1) * 100 exactly when MA50 > MA200, and
\* otherwise Decline with magnitude (1 - MA50/MA200) * 100; a tie is a
\* Decline of magnitude 0; the magnitude is never negative.
ThmC6_Tendencia ==
  LET m50  == Ultimo("Media_Movel_50")
      m200 == Ultimo("Media_Movel_200")
  IN  (AposTendencia /\ ~IsNaN(m50) /\ ~IsNaN(m200) /\ Gt(m200, Num(0))) =>
        /\ trend.tendencia = "Crescimento" <=> Gt(m50, m200)
        /\ trend.tendencia = "Crescimento"
             => trend.percentual = Div(Mul(Num(100), Sub(m50, m200)), m200)
        /\ trend.tendencia # "Crescimento"
             => /\ trend.tendencia = "Queda"
                /\ trend.percentual = Div(Mul(Num(100), Sub(m200, m50)), m200)
        /\ m50 = m200 => (trend.tendencia = "Queda" /\ trend.percentual = Num(0))
        /\ Ge(trend.percentual, Num(0))

\* the tie: both averages defined, positive and equal, reported as a
\* Decline of 0
WitC6_Empate ==
  /\ AposTendencia
  /\ ~IsNaN(Ultimo("Media_Movel_200"))
  /\ Gt(Ultimo("Media_Movel_200"), Num(0))
  /\ Ultimo("Media_Movel_50") = Ultimo("Media_Movel_200")
  /\ trend.tendencia = "Queda" /\ trend.percentual = Num(0)

\* C7 as stated: in the series calcular_metricas produces, the cumulative
\* return at the first date is 0.
C7_PrimeiroRetornoZero ==
  AposMetricas => Col("Retorno_Acumulado")[1] = Num(0)

\* C7 as amended: the cumulative return at the first date is undefined; the
\* first date contributes a factor of 1, so that at the second date it is
\* that date's daily return, and from then on each date compounds its
\* daily return onto the date before.
ThmC7_RetornoAcumulado ==
  AposMetricas =>
    LET ra == Col("Retorno_Acumulado")
        rd == Col("Retorno_Diario")
    IN  /\ IsNaN(ra[1])
        /\ N >= 2 => ra[2] = rd[2]
        /\ \A t \in 3..N :
             Add(Num(1), ra[t]) = Mul(Add(Num(1), ra[t - 1]), Add(Num(1), rd[t]))

\* a series of 3 dates or more whose price moved: the running product has
\* compounded to a return that is not 0
WitC7_RetornoComposto ==
  /\ AposMetricas /\ N >= 3
  /\ IsNaN(Col("Retorno_Acumulado")[1])
  /\ IsFinite(Col("Retorno_Acumulado")[N])
  /\ Col("Retorno_Acumulado")[N] # Num(0)

\* C8: calcular_metricas produces no metric series from a price series
\* that is empty or holds a price that is not positive.
C8_DataError ==
  AposMetricas => (N >= 1 /\ \A t \in 1..N : Gt(Col("Adj Close")[t], Num(0)))

\* C9: calcular_metricas leaves the table it is given as it was (the price
\* column alone) and returns the metrics in another object.
C9_TabelaIntacta ==
  AposMetricas => (DOMAIN Frame(entrada) = {"Adj Close"} /\ df # entrada)

\* the sum of s over lo..hi, taken directly
RECURSIVE SomaDireta(_, _, _)
SomaDireta(s, lo, hi) ==
  IF lo > hi THEN Num(0)
  ELSE IF lo = hi THEN s[lo]
  ELSE LET mid == (lo + hi) \div 2
       IN  Add(SomaDireta(s, lo, mid), SomaDireta(s, mid + 1, hi))

\* C10: for a series of n prices the 50-period average is undefined at
\* every date before the 50th, and at each date from the 50th on it is the
\* arithmetic mean of the 50 prices ending there: n - 49 defined values
\* when n >= 50, none when n < 50.
ThmC10_MediaMovel50 ==
  AposMetricas =>
    LET ma == Col("Media_Movel_50")
        p  == Col("Adj Close")
    IN  /\ \A t \in 1..N : t < 50 => IsNaN(ma[t])
        /\ \A t \in 50..N : ma[t] = Div(SomaDireta(p, t - 49, t), Num(50))
        /\ Cardinality({t \in 1..N : ~IsNaN(ma[t])}) = IF N < 50 THEN 0 ELSE N - 49

\* more than 50 prices that are not all alike: the average is undefined at
\* the 49th date, defined from the 50th, and moves with the window
WitC10_JanelaCompleta ==
  /\ AposMetricas /\ N > 50
  /\ IsNaN(Col("Media_Movel_50")[49])
  /\ IsFinite(Col("Media_Movel_50")[50])
  /\ IsFinite(Col("Media_Movel_50")[N])
  /\ Col("Media_Movel_50")[N] # Col("Media_Movel_50")[50]

====
